---- MODULE Spec2Model ----
(***************************************************************************)
(* Model of the Kuzzle Terraform provider configuration pass               *)
(* (kuzzle/provider.go): providerConfigure and its three helpers           *)
(* checkConnection, checkToken and tryAuthenticate.                        *)
(*                                                                         *)
(* Go strings supplied by the user or the server (api_key, username,       *)
(* password, jwt) are sequences over Alphabet of length <= MaxStrLen; the  *)
(* empty Go string "" is the empty sequence.  An HTTP response is a        *)
(* record (transport outcome, status code, body); a body is described by   *)
(* what encoding/json decodes it to.                                       *)
(***************************************************************************)
EXTENDS Integers, Sequences, FiniteSets, TLC

VARIABLES
    pc,         \* position of providerConfigure
    endpoint,   \* d.Get("endpoint")
    apiKey,     \* d.Get("api_key")
    username,   \* d.Get("username")
    password,   \* d.Get("password")
    config,     \* named result `config`
    diags,      \* named result `diags`
    calls,      \* outbound HTTP requests issued so far, in order
    resp,       \* response received for the last request
    connErr,    \* value returned by checkConnection
    authRes,    \* values returned by tryAuthenticate
    tokenErr    \* value returned by checkToken

vars == <<pc, endpoint, apiKey, username, password, config, diags, calls,
          resp, connErr, authRes, tokenErr>>

----------------------------------------------------------------------------
(* Bounds and input domains *)

MaxStrLen == 1

Alphabet == {"a", "b"}

Strings == UNION {[1..n -> Alphabet] : n \in 0..MaxStrLen}

EmptyString == <<>>

Endpoints == {"http://kuzzle:7512", "https://kuzzle.example.org"}

----------------------------------------------------------------------------
(* Go values *)

\* the nil error
Nil == "<nil>"

\* a run-time panic raised while evaluating a helper (no value is returned)
Panic == "<panic>"

\* the helper has not been called in this pass
NotCalled == "<not called>"

IsError(e) == e \notin {Nil, Panic, NotCalled}

StatusOK == 200
StatusBadGateway == 502
StatusServiceUnavailable == 503

Statuses == {StatusOK, 401, 403, 404, StatusBadGateway, StatusServiceUnavailable}

\* JSON values as decoded into interface{}
JAbsent == [t |-> "absent", b |-> FALSE, s |-> EmptyString]
JBool(x) == [t |-> "bool", b |-> x, s |-> EmptyString]
JStr(x) == [t |-> "string", b |-> FALSE, s |-> x]
JNum == [t |-> "number", b |-> FALSE, s |-> EmptyString]

\* the value of the top-level "result" member
NoResult == [t |-> "absent", valid |-> JAbsent, jwt |-> JAbsent]
ResultString == [t |-> "string", valid |-> JAbsent, jwt |-> JAbsent]
ResultObject(v, j) == [t |-> "object", valid |-> v, jwt |-> j]

Results ==
    {NoResult, ResultString}
    \cup {ResultObject(v, JAbsent) : v \in {JAbsent, JBool(TRUE), JBool(FALSE), JNum}}
    \cup {ResultObject(JAbsent, j) : j \in {JNum} \cup {JStr(s) : s \in Strings}}
    \cup {ResultObject(JBool(TRUE), JStr(s)) : s \in Strings}

\* raw: what the bytes of the body are ("text" is not JSON at all)
Bodies ==
    {[raw |-> r, result |-> NoResult] : r \in {"text", "null", "array"}}
    \cup {[raw |-> "object", result |-> res] : res \in Results}

TransportError == [ok |-> FALSE, status |-> 0, body |-> [raw |-> "text", result |-> NoResult]]

Responses ==
    {TransportError}
    \cup {[ok |-> TRUE, status |-> st, body |-> b] : st \in Statuses, b \in Bodies}

NoResponse == TransportError

\* json.Unmarshal(body, &jsonBody) with jsonBody a map[string]interface{}:
\* fails on bytes that are not JSON and on JSON that is not an object;
\* JSON null is accepted and leaves the map nil (every lookup yields nil).
Unmarshal(body) ==
    CASE body.raw = "text" -> [err |-> "invalid character", result |-> NoResult]
      [] body.raw = "array" -> [err |-> "json: cannot unmarshal array", result |-> NoResult]
      [] body.raw = "null" -> [err |-> Nil, result |-> NoResult]
      [] OTHER -> [err |-> Nil, result |-> body.result]

----------------------------------------------------------------------------
(* Config and diagnostics *)

NilConfig == [nil |-> TRUE, Endpoint |-> "", Token |-> EmptyString]

NewConfig(e, t) == [nil |-> FALSE, Endpoint |-> e, Token |-> t]

\* diag.Errorf(format, err): one Error diagnostic whose summary is the
\* formatted text, kept as <<text before the verb, value of the verb>>
Errorf(prefix, err) ==
    <<[Severity |-> "Error", Summary |-> <<prefix, err>>, Detail |-> ""]>>

ErrorDiag(summary, err) ==
    [Severity |-> "Error", Summary |-> <<summary>>, Detail |-> err]

WarningDiag ==
    [Severity |-> "Warning",
     Summary |-> <<"Kuzzle authentication credentials not provided">>,
     Detail |-> "No authentication credentials provided. Using anonymous authentication..."]

----------------------------------------------------------------------------
(* Helpers *)

Request(method, e, route) == [method |-> method, endpoint |-> e, route |-> route]

GetRoot(e) == Request("GET", e, "")
PostLogin(e) == Request("POST", e, "/_login/local")
PostCheckToken(e) == Request("POST", e, "/_checkToken")

checkConnection_Only502(r) ==
    IF ~r.ok THEN "transport error"
    ELSE IF r.status = StatusBadGateway
         THEN "Kuzzle server is not reachable"
         ELSE Nil

checkConnection(r) ==
    IF ~r.ok THEN "transport error"
    ELSE IF r.status = StatusBadGateway \/ r.status = StatusServiceUnavailable
         THEN "Kuzzle server is not reachable"
         ELSE Nil

checkToken(r) ==
    IF ~r.ok THEN "transport error"
    ELSE IF r.status # StatusOK THEN Nil    \* `return err` with err == nil
    ELSE LET u == Unmarshal(r.body) IN
         IF u.err # Nil THEN u.err
         ELSE IF u.result.t # "object" THEN Panic
         ELSE IF u.result.valid.t # "bool" THEN Panic
         ELSE IF u.result.valid.b # TRUE THEN "Kuzzle API key is invalid"
         ELSE Nil

tryAuthenticate(r) ==
    IF ~r.ok THEN [jwt |-> EmptyString, err |-> "transport error"]
    ELSE IF r.status # StatusOK
         THEN [jwt |-> EmptyString, err |-> "Kuzzle authentication failed"]
    ELSE LET u == Unmarshal(r.body) IN
         IF u.err # Nil THEN [jwt |-> EmptyString, err |-> u.err]
         ELSE IF u.result.t # "object" THEN [jwt |-> EmptyString, err |-> Panic]
         ELSE IF u.result.jwt.t # "string" THEN [jwt |-> EmptyString, err |-> Panic]
         ELSE [jwt |-> u.result.jwt.s, err |-> Nil]

AuthNotCalled == [jwt |-> EmptyString, err |-> NotCalled]

----------------------------------------------------------------------------
(* providerConfigure *)

Init ==
    /\ pc = "start"
    /\ endpoint \in Endpoints
    /\ apiKey \in Strings
    /\ username \in Strings
    /\ password \in Strings
    /\ config = NilConfig
    /\ diags = <<>>
    /\ calls = <<>>
    /\ resp = NoResponse
    /\ connErr = NotCalled
    /\ authRes = AuthNotCalled
    /\ tokenErr = NotCalled

settings == <<endpoint, apiKey, username, password>>

CheckConnectionStep_FallsThrough ==
    /\ pc = "start"
    /\ \E r \in Responses :
        LET err == checkConnection(r) IN
        /\ calls' = Append(calls, GetRoot(endpoint))
        /\ resp' = r
        /\ connErr' = err
        /\ IF err # Nil
           THEN /\ diags' = Errorf("Error connecting to Kuzzle: ", err)
                /\ pc' = "auth"
           ELSE /\ diags' = diags
                /\ pc' = "auth"
        /\ config' = config
    /\ UNCHANGED <<settings, authRes, tokenErr>>

CheckConnectionStep ==
    /\ pc = "start"
    /\ \E r \in Responses :
        LET err == checkConnection(r) IN
        /\ calls' = Append(calls, GetRoot(endpoint))
        /\ resp' = r
        /\ connErr' = err
        /\ IF err # Nil
           THEN /\ config' = NilConfig
                /\ diags' = Errorf("Error connecting to Kuzzle: ", err)
                /\ pc' = "returned"
           ELSE /\ config' = config
                /\ diags' = diags
                /\ pc' = "auth"
    /\ UNCHANGED <<settings, authRes, tokenErr>>

HasUserPass_Either == username # EmptyString \/ password # EmptyString

HasUserPass == username # EmptyString /\ password # EmptyString

TryAuthenticateStep_FallsBack ==
    /\ pc = "auth"
    /\ HasUserPass
    /\ \E r \in Responses :
        LET res == tryAuthenticate(r) IN
        /\ calls' = Append(calls, PostLogin(endpoint))
        /\ resp' = r
        /\ authRes' = res
        /\ IF res.err = Panic
           THEN /\ pc' = "panic"
                /\ UNCHANGED <<config, diags>>
           ELSE IF res.err # Nil
           THEN /\ diags' = Append(diags, ErrorDiag("Kuzzle authentication failed", res.err))
                /\ config' = config
                /\ pc' = "token"
           ELSE /\ config' = NewConfig(endpoint, res.jwt)
                /\ diags' = diags
                /\ pc' = "token"
    /\ UNCHANGED <<settings, connErr, tokenErr>>

TryAuthenticateStep ==
    /\ pc = "auth"
    /\ HasUserPass
    /\ \E r \in Responses :
        LET res == tryAuthenticate(r) IN
        /\ calls' = Append(calls, PostLogin(endpoint))
        /\ resp' = r
        /\ authRes' = res
        /\ IF res.err = Panic
           THEN /\ pc' = "panic"
                /\ UNCHANGED <<config, diags>>
           ELSE IF res.err # Nil
           THEN /\ diags' = Append(diags, ErrorDiag("Kuzzle authentication failed", res.err))
                /\ config' = config
                /\ pc' = "returned"
           ELSE /\ config' = NewConfig(endpoint, res.jwt)
                /\ diags' = diags
                /\ pc' = "token"
    /\ UNCHANGED <<settings, connErr, tokenErr>>

SkipAuthenticate ==
    /\ pc = "auth"
    /\ ~HasUserPass
    /\ pc' = "token"
    /\ UNCHANGED <<settings, config, diags, calls, resp, connErr, authRes, tokenErr>>

HasApiKey_Always == TRUE

HasApiKey == apiKey # EmptyString

CheckTokenStep_KeepsJwt ==
    /\ pc = "token"
    /\ HasApiKey
    /\ \E r \in Responses :
        LET err == checkToken(r) IN
        /\ calls' = Append(calls, PostCheckToken(endpoint))
        /\ resp' = r
        /\ tokenErr' = err
        /\ IF err = Panic
           THEN /\ pc' = "panic"
                /\ UNCHANGED <<config, diags>>
           ELSE IF err # Nil
           THEN /\ diags' = Append(diags, ErrorDiag("Kuzzle provided API key is invalid", err))
                /\ config' = config
                /\ pc' = "returned"
           ELSE /\ config' = IF config.nil THEN NewConfig(endpoint, apiKey) ELSE config
                /\ diags' = diags
                /\ pc' = "anon"
    /\ UNCHANGED <<settings, connErr, authRes>>

CheckTokenStep ==
    /\ pc = "token"
    /\ HasApiKey
    /\ \E r \in Responses :
        LET err == checkToken(r) IN
        /\ calls' = Append(calls, PostCheckToken(endpoint))
        /\ resp' = r
        /\ tokenErr' = err
        /\ IF err = Panic
           THEN /\ pc' = "panic"
                /\ UNCHANGED <<config, diags>>
           ELSE IF err # Nil
           THEN /\ diags' = Append(diags, ErrorDiag("Kuzzle provided API key is invalid", err))
                /\ config' = config     \* bare return: the named result keeps its value
                /\ pc' = "returned"
           ELSE /\ config' = NewConfig(endpoint, apiKey)
                /\ diags' = diags
                /\ pc' = "anon"
    /\ UNCHANGED <<settings, connErr, authRes>>

SkipCheckToken ==
    /\ pc = "token"
    /\ ~HasApiKey
    /\ pc' = "anon"
    /\ UNCHANGED <<settings, config, diags, calls, resp, connErr, authRes, tokenErr>>

AnonymousStep_NoConfig ==
    /\ pc = "anon"
    /\ IF config.nil
       THEN /\ diags' = Append(diags, WarningDiag)
            /\ config' = config
       ELSE UNCHANGED <<config, diags>>
    /\ pc' = "returned"
    /\ UNCHANGED <<settings, calls, resp, connErr, authRes, tokenErr>>

AnonymousStep ==
    /\ pc = "anon"
    /\ IF config.nil
       THEN /\ diags' = Append(diags, WarningDiag)
            /\ config' = NewConfig(endpoint, EmptyString)
       ELSE UNCHANGED <<config, diags>>
    /\ pc' = "returned"
    /\ UNCHANGED <<settings, calls, resp, connErr, authRes, tokenErr>>

Next ==
    \/ CheckConnectionStep
    \/ TryAuthenticateStep
    \/ SkipAuthenticate
    \/ CheckTokenStep
    \/ SkipCheckToken
    \/ AnonymousStep

Spec == Init /\ [][Next]_vars

----------------------------------------------------------------------------
(* Auxiliary predicates over the results *)

Returned == pc = "returned"

HasSeverity(sev) == \E i \in 1..Len(diags) : diags[i].Severity = sev

LastCall == calls[Len(calls)]

Rank(c) ==
    CASE c.route = "" -> 1
      [] c.route = "/_login/local" -> 2
      [] c.route = "/_checkToken" -> 3

TypeOK ==
    /\ pc \in {"start", "auth", "token", "anon", "returned", "panic"}
    /\ endpoint \in Endpoints
    /\ apiKey \in Strings /\ username \in Strings /\ password \in Strings
    /\ resp \in Responses
    /\ Len(diags) <= 2

----------------------------------------------------------------------------
(* Properties *)

\* C1: whenever api_key is non-empty and checkToken returns an error, the
\* pass returns no Config (nil) and its last diagnostic is the Error
\* "Kuzzle provided API key is invalid", also when tryAuthenticate has
\* already succeeded and set a Config.
C1_InvalidKeyReturnsNilConfig ==
    (Returned /\ apiKey # EmptyString /\ IsError(tokenErr)) =>
        /\ config = NilConfig
        /\ Len(diags) >= 1
        /\ diags[Len(diags)].Severity = "Error"
        /\ diags[Len(diags)].Summary = <<"Kuzzle provided API key is invalid">>

\* C2: checkToken returns no error if and only if the transport succeeds,
\* the status is 200 and the body decodes to JSON whose result.valid is
\* true; no other response (transport error, non-200 status, undecodable
\* body, valid=false) is reported as a success.
C2_CheckTokenIff ==
    (tokenErr # NotCalled) =>
        LET good == /\ resp.ok
                    /\ resp.status = StatusOK
                    /\ resp.body.raw = "object"
                    /\ resp.body.result.t = "object"
                    /\ resp.body.result.valid = JBool(TRUE)
        IN  good <=> (tokenErr = Nil)

\* C3: every failure of a helper is an error return value, never an
\* uncaught fault: no helper panics, whatever the JSON body of a 200
\* response looks like.
C3_NoUncaughtFault ==
    /\ pc # "panic"
    /\ connErr # Panic
    /\ authRes.err # Panic
    /\ tokenErr # Panic

\* C4: if checkConnection fails, the pass has returned a nil Config and
\* exactly one diagnostic, an Error beginning "Error connecting to Kuzzle:",
\* and the only request made is the GET (no login, no token check).
C4_ConnectionFailureIsFatal ==
    IsError(connErr) =>
        /\ Returned
        /\ config = NilConfig
        /\ Len(diags) = 1
        /\ diags[1].Severity = "Error"
        /\ Head(diags[1].Summary) = "Error connecting to Kuzzle: "
        /\ diags[1].Summary[2] = connErr
        /\ calls = <<GetRoot(endpoint)>>
        /\ authRes = AuthNotCalled
        /\ tokenErr = NotCalled

C4_Witness ==
    /\ Returned
    /\ IsError(connErr)
    /\ resp.ok /\ resp.status = StatusServiceUnavailable
    /\ apiKey # EmptyString /\ username # EmptyString /\ password # EmptyString

\* C5: a pass that returns yields a non-nil Config, or a nil Config with at
\* least one Error diagnostic; never a nil Config with an empty or
\* warning-only diagnostic list.
C5_ConfigOrError ==
    Returned => (~config.nil \/ HasSeverity("Error"))

C5_Witness ==
    /\ Returned
    /\ config.nil
    /\ IsError(authRes.err)
    /\ HasSeverity("Error")

\* C6: endpoint reachable, api_key empty and username/password not both
\* non-empty: only the GET is made, and the pass returns
\* Config{endpoint, ""} with exactly one diagnostic, a Warning.
C6_AnonymousFallback ==
    (Returned /\ connErr = Nil /\ apiKey = EmptyString
              /\ ~(username # EmptyString /\ password # EmptyString)) =>
        /\ calls = <<GetRoot(endpoint)>>
        /\ authRes = AuthNotCalled
        /\ tokenErr = NotCalled
        /\ config = NewConfig(endpoint, EmptyString)
        /\ Len(diags) = 1
        /\ diags[1].Severity = "Warning"
        /\ ~HasSeverity("Error")

C6_Witness ==
    /\ Returned
    /\ connErr = Nil
    /\ apiKey = EmptyString
    /\ username # EmptyString
    /\ password = EmptyString
    /\ diags = <<WarningDiag>>

\* C7: endpoint reachable, username and password non-empty, api_key empty:
\* if tryAuthenticate succeeds with jwt J the pass returns
\* Config{endpoint, J} and no diagnostics; if it fails the pass returns no
\* Config and exactly one Error "Kuzzle authentication failed" (no
\* anonymous fallback, no Warning).
C7_UsernamePassword ==
    (Returned /\ connErr = Nil /\ apiKey = EmptyString
              /\ username # EmptyString /\ password # EmptyString) =>
        /\ authRes.err = Nil =>
              /\ config = NewConfig(endpoint, authRes.jwt)
              /\ diags = <<>>
        /\ authRes.err # Nil =>
              /\ IsError(authRes.err)
              /\ config = NilConfig
              /\ Len(diags) = 1
              /\ diags[1].Severity = "Error"
              /\ diags[1].Summary = <<"Kuzzle authentication failed">>

C7_Witness ==
    /\ Returned
    /\ apiKey = EmptyString
    /\ authRes.err = Nil
    /\ authRes.jwt # EmptyString
    /\ config = NewConfig(endpoint, authRes.jwt)

C9_CheckConnectionIff ==
    (Len(calls) = 1) =>
        /\ (connErr = Nil) <=> (resp.ok /\ resp.status \notin {502, 503})
        /\ IsError(connErr) <=> (~resp.ok \/ resp.status \in {502, 503})

C9_Witness ==
    /\ Len(calls) = 1
    /\ connErr = Nil
    /\ resp.ok
    /\ resp.status = 403

\* C10: the outbound calls of a pass are a subsequence, in this order, of
\* [GET endpoint, POST /_login/local, POST /_checkToken]: each at most once,
\* the GET first, the login only if username and password are non-empty,
\* the token check only if api_key is non-empty, and none after a call
\* that failed.
C10_CallOrder ==
    /\ Len(calls) <= 3
    /\ pc # "start" => (Len(calls) >= 1 /\ calls[1] = GetRoot(endpoint))
    /\ \A i \in 1..Len(calls) :
          calls[i] \in {GetRoot(endpoint), PostLogin(endpoint), PostCheckToken(endpoint)}
    /\ \A i, j \in 1..Len(calls) : i < j => Rank(calls[i]) < Rank(calls[j])
    /\ (\E i \in 1..Len(calls) : calls[i] = PostLogin(endpoint)) <=> authRes.err # NotCalled
    /\ (\E i \in 1..Len(calls) : calls[i] = PostCheckToken(endpoint)) <=> tokenErr # NotCalled
    /\ authRes.err # NotCalled => (username # EmptyString /\ password # EmptyString)
    /\ tokenErr # NotCalled => apiKey # EmptyString
    /\ connErr \notin {Nil, NotCalled} => Len(calls) = 1
    /\ authRes.err \notin {Nil, NotCalled} => LastCall = PostLogin(endpoint)
    /\ tokenErr \notin {Nil, NotCalled} => LastCall = PostCheckToken(endpoint)

C10_Witness ==
    /\ Returned
    /\ calls = <<GetRoot(endpoint), PostLogin(endpoint), PostCheckToken(endpoint)>>

====
